---- MODULE Spec2Model ----
(***************************************************************************)
(* Model of brightness_control.py: the sysfs backlight controller          *)
(* (BacklightController), the double-tap detector thread                   *)
(* (DoubleTapDetector._monitor_touch) and the GTK foreground handlers that *)
(* share the backlight device with it (BrightnessControlWindow).           *)
(*                                                                         *)
(* Time is counted in units of 250 ms, so tap_timeout (0.5 s) is 2.        *)
(* time.time() is wall-clock seconds since 1970: every reading is far      *)
(* above tap_timeout, and successive readings need not increase (the clock *)
(* can be stepped).  A reading is any value of Times.                      *)
(*                                                                         *)
(* Every device access (open/read/write of a sysfs file) can fail; each    *)
(* action that performs one takes its outcome ok from BOOLEAN.             *)
(***************************************************************************)
EXTENDS Integers, Sequences, FiniteSets, TLC

tap_timeout == 2

DevMax == 2
MaxT == 3
MaxQueue == 2
MaxRaw == 102
MaxDowns == 4

ClockBase == tap_timeout + 1
Times == ClockBase .. (ClockBase + MaxT)
Levels == 0 .. DevMax
Threads == {1, 2}
Events == {"down", "up", "other"}
UserPercents == {0, 50, 100}
Percents == 0 .. 100
Values == (0 - 1) .. (DevMax + 1)
RawLevels == 0 .. MaxRaw

VARIABLES
  brightness,       \* content of the sysfs file brightness
  bl_power,         \* content of the sysfs file bl_power: 0 = on, 1 = off
  max_brightness,   \* BacklightController.max_brightness
  last_brightness,  \* BacklightController.last_brightness
  touch_device,     \* DoubleTapDetector.touch_device is set (a device was found)
  running,          \* DoubleTapDetector.running
  pc,               \* position of each monitoring thread in _monitor_touch
  ev,               \* the event a monitoring thread holds
  current_time,     \* _monitor_touch's local current_time (0: not live)
  last_tap_time,    \* DoubleTapDetector.last_tap_time (0: none)
  touch_down,       \* DoubleTapDetector.touch_down
  idle_queue,       \* number of callbacks GLib.idle_add has queued
  fgpc,             \* position of the GTK main loop thread
  checkbox,         \* off_checkbox.get_active()
  wr,               \* outcome of the two writes of the running restore_brightness
  hist,             \* the last Downs the detector processed since the gate was last closed
  calls,            \* the last calls made to the controller's methods, with their outcome
  tally,            \* Downs handled past the gate and wakes queued, while counting is on
  updating          \* BrightnessControlWindow.updating

dev == <<brightness, bl_power, last_brightness>>
vars == <<brightness, bl_power, max_brightness, last_brightness, touch_device,
          running, pc, ev, current_time, last_tap_time, touch_down, idle_queue,
          fgpc, checkbox, wr, hist, calls,
                 tally, updating>>

NoWrite == [b |-> FALSE, p |-> FALSE]

\* tally while nothing is counted, and at the start of a count
NoTally == [on |-> FALSE, downs |-> 0, wakes |-> 0]
StartTally == [on |-> TRUE, downs |-> 0, wakes |-> 0]

Min(a, b) == IF a < b THEN a ELSE b
Max(a, b) == IF a > b THEN a ELSE b

(***************************************************************************)
(* BacklightController                                                     *)
(***************************************************************************)

read_int_one(value, ok) == IF ok THEN value ELSE 1

\* _read_int: the file's value, or 0 when the read fails
read_int(value, ok) == IF ok THEN value ELSE 0

Clamp_nolower(value) == Min(value, max_brightness)

\* value = max(0, min(value, self.max_brightness))
Clamp(value) == Max(0, Min(value, max_brightness))

set_brightness_eager(value, ok) ==
  /\ last_brightness' = Clamp(value)
  /\ brightness' = IF ok THEN Clamp(value) ELSE brightness

\* set_brightness: clamp, write the device, on success remember the value
set_brightness(value, ok) ==
  IF ok THEN brightness' = Clamp(value) /\ last_brightness' = Clamp(value)
        ELSE UNCHANGED <<brightness, last_brightness>>

\* set_brightness returns True when the write succeeded, False otherwise
set_brightness_result(ok) == ok

(***************************************************************************)
(* The percent conversions are computed in IEEE-754 double precision and   *)
(* truncated by int().  The double product falls just below the exact      *)
(* integer quotient at the pairs listed here, and int() then gives one     *)
(* less (0.58 * 100 is 57.99999999999999).  The lists are complete for     *)
(* percent in 0..100 and max_brightness up to 149.                         *)
(***************************************************************************)
\* <<percent, max_brightness>> with int((percent / 100.0) * max) one below
SetSlips == {<<58, 50>>, <<70, 90>>, <<29, 100>>, <<57, 100>>, <<58, 100>>}

\* <<brightness, max_brightness>> with int((brightness / max) * 100) one below
GetSlips == {<<29, 50>>, <<29, 100>>, <<57, 100>>, <<58, 100>>}

PercentToRaw_half(percent) == (percent * max_brightness) \div 200

\* int((percent / 100.0) * self.max_brightness)
PercentToRaw(percent) ==
  ((percent * max_brightness) \div 100)
    - (IF <<percent, max_brightness>> \in SetSlips THEN 1 ELSE 0)

RawToPercent_round(value) ==
  ((200 * value) + max_brightness) \div (2 * max_brightness)

\* int((self.get_brightness() / self.max_brightness) * 100)
RawToPercent(value) ==
  ((value * 100) \div max_brightness)
    - (IF <<value, max_brightness>> \in GetSlips THEN 1 ELSE 0)

\* get_brightness_percent: 0 when max_brightness is 0; a failed read of
\* brightness gives 0
get_brightness_percent(ok) ==
  IF max_brightness = 0 THEN 0 ELSE RawToPercent(read_int(brightness, ok))

set_brightness_percent(percent, ok) == set_brightness(PercentToRaw(percent), ok)

is_backlight_off_flipped(ok) == read_int(bl_power, ok) = 0

\* is_backlight_off: a failed read gives 0, which is "on"
is_backlight_off(ok) == read_int(bl_power, ok) = 1

turn_backlight_off_toggle(ok) == bl_power' = IF ok THEN 1 - bl_power ELSE bl_power

turn_backlight_off(ok) == bl_power' = IF ok THEN 1 ELSE bl_power

turn_backlight_on_noop(ok) == bl_power' = bl_power

turn_backlight_on(ok) == bl_power' = IF ok THEN 0 ELSE bl_power

restore_brightness_power_first(ok) ==
  turn_backlight_on(ok) /\ UNCHANGED <<brightness, last_brightness>>

\* restore_brightness, first statement: self.set_brightness(self.last_brightness)
restore_brightness_set(ok) ==
  set_brightness(last_brightness, ok) /\ UNCHANGED bl_power

\* restore_brightness, second statement: self.turn_backlight_on()
restore_brightness_on(ok) ==
  turn_backlight_on(ok) /\ UNCHANGED <<brightness, last_brightness>>

(***************************************************************************)
(* DoubleTapDetector._monitor_touch, one thread t                          *)
(***************************************************************************)

\* hist keeps the last three Downs
Remember(h, t, woke) ==
  LET all == Append(h, [t |-> t, woke |-> woke])
  IN  IF Len(all) > 3 THEN Tail(all) ELSE all

\* for event in device.read_loop(): if not self.running: break
Recv_norun(t, e) ==
  /\ pc[t] = "read"
  /\ pc' = [pc EXCEPT ![t] = "gate"]
  /\ ev' = [ev EXCEPT ![t] = e]
  /\ UNCHANGED <<brightness, bl_power, max_brightness, last_brightness,
                 touch_device, running, current_time, last_tap_time,
                 touch_down, idle_queue, fgpc, checkbox, wr, hist, calls,
                 tally, updating>>

Recv(t, e) ==
  /\ pc[t] = "read"
  /\ IF ~running
       THEN /\ pc' = [pc EXCEPT ![t] = "done"]
            /\ UNCHANGED ev
       ELSE /\ pc' = [pc EXCEPT ![t] = "gate"]
            /\ ev' = [ev EXCEPT ![t] = e]
  /\ UNCHANGED <<brightness, bl_power, max_brightness, last_brightness,
                 touch_device, running, current_time, last_tap_time,
                 touch_down, idle_queue, fgpc, checkbox, wr, hist, calls,
                 tally, updating>>

\* if not self.backlight_controller.is_backlight_off(): reset and continue
Gate(t, ok) ==
  /\ pc[t] = "gate"
  /\ IF ~is_backlight_off(ok)
       THEN /\ last_tap_time' = 0
            /\ touch_down' = FALSE
            /\ hist' = <<>>
            /\ pc' = [pc EXCEPT ![t] = "read"]
            /\ ev' = [ev EXCEPT ![t] = "none"]
       ELSE /\ pc' = [pc EXCEPT ![t] = "proc"]
            /\ UNCHANGED <<last_tap_time, touch_down, hist, ev>>
  /\ UNCHANGED <<brightness, bl_power, max_brightness, last_brightness,
                 touch_device, running, current_time, idle_queue, fgpc,
                 checkbox, wr, calls,
                 tally, updating>>

\* if event.type == EV_KEY: if event.code == BTN_TOUCH: current_time = time.time()
Stamp(t, now) ==
  /\ pc[t] = "proc"
  /\ IF ev[t] = "other"
       THEN /\ pc' = [pc EXCEPT ![t] = "read"]
            /\ ev' = [ev EXCEPT ![t] = "none"]
            /\ UNCHANGED current_time
       ELSE /\ pc' = [pc EXCEPT ![t] = "tap"]
            /\ current_time' = [current_time EXCEPT ![t] = now]
            /\ UNCHANGED ev
  /\ UNCHANGED <<brightness, bl_power, max_brightness, last_brightness,
                 touch_device, running, last_tap_time, touch_down, idle_queue,
                 fgpc, checkbox, wr, hist, calls,
                 tally, updating>>

\* one more Down handled past the gate; woke: it queued a wake
Count(woke) ==
  IF tally.on
    THEN [tally EXCEPT !.downs = @ + 1, !.wakes = @ + (IF woke THEN 1 ELSE 0)]
    ELSE tally

IsDoubleTap_any(now) == TRUE

IsDoubleTap_le(now) == now - last_tap_time <= tap_timeout

\* if current_time - self.last_tap_time < self.tap_timeout
IsDoubleTap(now) == now - last_tap_time < tap_timeout

idle_add_twice == idle_queue' = idle_queue + 2

\* GLib.idle_add(self.callback): one more callback queued for the main loop
idle_add == idle_queue' = idle_queue + 1

TapDown_noreset(t, keep) ==
  /\ touch_down' = TRUE
  /\ tally.on => tally.downs < MaxDowns
  /\ tally' = Count(IsDoubleTap(current_time[t]))
  /\ IF IsDoubleTap(current_time[t])
       THEN /\ idle_queue < MaxQueue
            /\ idle_add
            /\ UNCHANGED last_tap_time
            /\ hist' = IF keep THEN Remember(hist, current_time[t], TRUE) ELSE hist
       ELSE /\ last_tap_time' = current_time[t]
            /\ UNCHANGED idle_queue
            /\ hist' = IF keep THEN Remember(hist, current_time[t], FALSE) ELSE hist
  /\ UNCHANGED dev

TapDown_sync(t, keep) ==
  /\ touch_down' = TRUE
  /\ tally.on => tally.downs < MaxDowns
  /\ tally' = Count(IsDoubleTap(current_time[t]))
  /\ IF IsDoubleTap(current_time[t])
       THEN /\ brightness' = Clamp(last_brightness)
            /\ bl_power' = 0
            /\ last_tap_time' = 0
            /\ UNCHANGED <<idle_queue, last_brightness>>
            /\ hist' = IF keep THEN Remember(hist, current_time[t], TRUE) ELSE hist
       ELSE /\ last_tap_time' = current_time[t]
            /\ UNCHANGED <<idle_queue, dev>>
            /\ hist' = IF keep THEN Remember(hist, current_time[t], FALSE) ELSE hist

\* if event.value == 1: touch down, lines 173-181
TapDown(t, keep) ==
  /\ touch_down' = TRUE
  /\ tally.on => tally.downs < MaxDowns
  /\ tally' = Count(IsDoubleTap(current_time[t]))
  /\ IF IsDoubleTap(current_time[t])
       THEN /\ idle_queue < MaxQueue
            /\ idle_add
            /\ last_tap_time' = 0
            /\ hist' = IF keep THEN Remember(hist, current_time[t], TRUE) ELSE hist
       ELSE /\ last_tap_time' = current_time[t]
            /\ UNCHANGED idle_queue
            /\ hist' = IF keep THEN Remember(hist, current_time[t], FALSE) ELSE hist
  /\ UNCHANGED dev

TapUp_reset(t) ==
  /\ touch_down' = FALSE
  /\ last_tap_time' = 0
  /\ UNCHANGED <<idle_queue, hist, dev, tally>>

\* elif event.value == 0: touch up, lines 183-184
TapUp(t) ==
  /\ touch_down' = FALSE
  /\ UNCHANGED <<last_tap_time, idle_queue, hist, dev, tally>>

\* lines 173-184, then back to read_loop
Tap(t, keep) ==
  /\ pc[t] = "tap"
  /\ IF ev[t] = "down" THEN TapDown(t, keep) ELSE TapUp(t)
  /\ pc' = [pc EXCEPT ![t] = "read"]
  /\ ev' = [ev EXCEPT ![t] = "none"]
  /\ current_time' = [current_time EXCEPT ![t] = 0]
  /\ UNCHANGED <<max_brightness, touch_device, running, fgpc, checkbox, wr, calls,
                 updating>>

Fault_continue(t) ==
  /\ pc[t] \in {"gate", "proc", "tap"}
  /\ pc' = [pc EXCEPT ![t] = "read"]
  /\ ev' = [ev EXCEPT ![t] = "none"]
  /\ current_time' = [current_time EXCEPT ![t] = 0]
  /\ UNCHANGED <<brightness, bl_power, max_brightness, last_brightness,
                 touch_device, running, last_tap_time, touch_down, idle_queue,
                 fgpc, checkbox, wr, hist, calls,
                 tally, updating>>

\* an exception raised by read_loop ("read") or while an event is handled: the
\* try encloses the for loop, so control leaves the loop for the except clause
\* and the thread function returns
Fault(t) ==
  /\ pc[t] \in {"read", "gate", "proc", "tap"}
  /\ pc' = [pc EXCEPT ![t] = "dead"]
  /\ ev' = [ev EXCEPT ![t] = "none"]
  /\ current_time' = [current_time EXCEPT ![t] = 0]
  /\ UNCHANGED <<brightness, bl_power, max_brightness, last_brightness,
                 touch_device, running, last_tap_time, touch_down, idle_queue,
                 fgpc, checkbox, wr, hist, calls,
                 tally, updating>>

(***************************************************************************)
(* The GTK main loop: BrightnessControlWindow's handlers.  One handler     *)
(* runs at a time; the monitoring threads run between its device accesses. *)
(***************************************************************************)

fg_frame == <<max_brightness, touch_device, running, pc, ev, current_time,
              last_tap_time, touch_down, hist, calls,
                 tally, updating>>

\* on_checkbox_toggled, after the user clicked the check button
on_checkbox_toggled(ok) ==
  /\ fgpc = "idle"
  /\ ~updating
  /\ checkbox' = ~checkbox
  /\ IF checkbox' THEN turn_backlight_off(ok) ELSE turn_backlight_on(ok)
  /\ UNCHANGED <<brightness, last_brightness, idle_queue, fgpc, wr>>
  /\ UNCHANGED fg_frame

\* on_slider_changed, after the user moved the slider to percent:
\* self.backlight_controller.set_brightness_percent(value)
SliderSet(percent, ok) ==
  /\ fgpc = "idle"
  /\ ~updating
  /\ set_brightness_percent(percent, ok)
  /\ fgpc' = "slider_gate"
  /\ UNCHANGED <<bl_power, idle_queue, checkbox, wr>>
  /\ UNCHANGED fg_frame

\* if self.backlight_controller.is_backlight_off():
SliderGate(ok) ==
  /\ fgpc = "slider_gate"
  /\ fgpc' = IF is_backlight_off(ok) THEN "slider_on" ELSE "idle"
  /\ UNCHANGED <<brightness, bl_power, last_brightness, idle_queue, checkbox, wr>>
  /\ UNCHANGED fg_frame

\* turn_backlight_on(); off_checkbox.set_active(False), which emits "toggled"
\* when the check button was active
SliderOn(ok) ==
  /\ fgpc = "slider_on"
  /\ turn_backlight_on(ok)
  /\ checkbox' = FALSE
  /\ fgpc' = IF checkbox THEN "slider_toggled" ELSE "idle"
  /\ UNCHANGED <<brightness, last_brightness, idle_queue, wr>>
  /\ UNCHANGED fg_frame

\* on_checkbox_toggled run by that "toggled": the button is inactive, turn on
SliderToggled(ok) ==
  /\ fgpc = "slider_toggled"
  /\ turn_backlight_on(ok)
  /\ fgpc' = "idle"
  /\ UNCHANGED <<brightness, last_brightness, idle_queue, checkbox, wr>>
  /\ UNCHANGED fg_frame

\* update_display on its 500 ms timer, as one step: the check button follows
\* the device (its steps and the signals it emits are UpdateBegin .. UpdateEnd)
update_display(ok) ==
  /\ fgpc = "idle"
  /\ checkbox' = is_backlight_off(ok)
  /\ UNCHANGED <<brightness, bl_power, last_brightness, idle_queue, fgpc, wr>>
  /\ UNCHANGED fg_frame

\* the main loop dispatches a queued idle callback: BrightnessControlApp.on_double_tap
WakeDispatch ==
  /\ fgpc = "idle"
  /\ idle_queue > 0
  /\ fgpc' = "wake_set"
  /\ UNCHANGED <<brightness, bl_power, last_brightness, idle_queue, checkbox, wr>>
  /\ UNCHANGED fg_frame

RestoreSet(ok) ==
  /\ fgpc = "wake_set"
  /\ restore_brightness_set(ok)
  /\ wr' = [wr EXCEPT !.b = ok]
  /\ fgpc' = "wake_on"
  /\ UNCHANGED <<idle_queue, checkbox>>
  /\ UNCHANGED fg_frame

RestoreOn(ok) ==
  /\ fgpc = "wake_on"
  /\ restore_brightness_on(ok)
  /\ wr' = [wr EXCEPT !.p = ok]
  /\ fgpc' = "wake_upd"
  /\ UNCHANGED <<idle_queue, checkbox>>
  /\ UNCHANGED fg_frame

on_double_tap_return_true == idle_queue' = idle_queue

\* return False: GLib removes the idle source, the callback is not run again
on_double_tap_return == idle_queue' = idle_queue - 1

\* self.update_display(); return False
WakeRefresh(ok) ==
  /\ fgpc = "wake_upd"
  /\ checkbox' = is_backlight_off(ok)
  /\ on_double_tap_return
  /\ wr' = NoWrite
  /\ fgpc' = "idle"
  /\ UNCHANGED <<brightness, bl_power, last_brightness>>
  /\ UNCHANGED fg_frame

(***************************************************************************)
(* The state after BrightnessControlApp.__init__: the controller has read  *)
(* max_brightness and brightness (either read can fail and give 0), the    *)
(* check button is inactive, and start() has started one monitoring thread *)
(* when a touch device was found.                                          *)
(***************************************************************************)
InitCommon ==
  /\ bl_power \in {0, 1}
  /\ touch_device \in BOOLEAN
  /\ running = touch_device
  /\ pc = [t \in Threads |-> IF t = 1 /\ touch_device THEN "read" ELSE "none"]
  /\ ev = [t \in Threads |-> "none"]
  /\ current_time = [t \in Threads |-> 0]
  /\ last_tap_time = 0
  /\ touch_down = FALSE
  /\ idle_queue = 0
  /\ fgpc = "idle"
  /\ checkbox = FALSE
  /\ wr = NoWrite
  /\ hist = <<>>
  /\ calls = <<>>
  /\ updating = FALSE

Init ==
  /\ InitCommon
  /\ tally = NoTally
  /\ brightness \in Levels
  /\ max_brightness \in {read_int(DevMax, ok) : ok \in BOOLEAN}
  /\ last_brightness \in {read_int(brightness, ok) : ok \in BOOLEAN}

MonitorStep(keep) ==
  \E t \in Threads :
    \/ \E e \in Events : Recv(t, e)
    \/ \E ok \in BOOLEAN : Gate(t, ok)
    \/ \E now \in Times : Stamp(t, now)
    \/ Tap(t, keep)
    \/ Fault(t)

WakeStep ==
  \/ WakeDispatch
  \/ \E ok \in BOOLEAN : RestoreSet(ok)
  \/ \E ok \in BOOLEAN : RestoreOn(ok)
  \/ \E ok \in BOOLEAN : WakeRefresh(ok)

SliderStep ==
  \/ \E p \in UserPercents, ok \in BOOLEAN : SliderSet(p, ok)
  \/ \E ok \in BOOLEAN : SliderGate(ok)
  \/ \E ok \in BOOLEAN : SliderOn(ok)
  \/ \E ok \in BOOLEAN : SliderToggled(ok)

ForegroundStep ==
  \/ WakeStep
  \/ SliderStep
  \/ \E ok \in BOOLEAN : on_checkbox_toggled(ok)
  \/ \E ok \in BOOLEAN : update_display(ok)

Next == MonitorStep(FALSE) \/ ForegroundStep

Spec == Init /\ [][Next]_vars

(***************************************************************************)
(* The detector on its own: the device stays at full brightness, the       *)
(* foreground only toggles power and runs the wake callback, and hist      *)
(* keeps the last three Downs the detector processed.                    *)
(***************************************************************************)
InitTap ==
  /\ InitCommon
  /\ tally = NoTally
  /\ brightness = DevMax
  /\ max_brightness = DevMax
  /\ last_brightness = DevMax

NextTap ==
  \/ MonitorStep(TRUE)
  \/ WakeStep
  \/ \E ok \in BOOLEAN : on_checkbox_toggled(ok)
  \/ \E ok \in BOOLEAN : update_display(ok)

SpecTap == InitTap /\ [][NextTap]_vars

(***************************************************************************)
(* The detector with its Downs and wakes counted: the one monitoring       *)
(* thread the application starts, the wake callback and the check button   *)
(* switching the power.  MaxDowns bounds the Downs counted.                *)
(***************************************************************************)
InitCount ==
  /\ InitCommon
  /\ tally = StartTally
  /\ brightness = DevMax
  /\ max_brightness = DevMax
  /\ last_brightness = DevMax

NextCount ==
  \/ MonitorStep(FALSE)
  \/ WakeStep
  \/ \E ok \in BOOLEAN : on_checkbox_toggled(ok)

SpecCount == InitCount /\ [][NextCount]_vars

(***************************************************************************)
(* update_display step by step, run by its timer (from "idle") or by        *)
(* on_double_tap after restore_brightness (from "wake_upd").  Gtk emits     *)
(* "value-changed" from slider.set_value and "toggled" from                 *)
(* off_checkbox.set_active when the widget's value changes, and runs the    *)
(* connected handler before set_value / set_active returns.  The slider's  *)
(* position is not part of the state: whether set_value changes it is a    *)
(* free choice.                                                            *)
(***************************************************************************)
Origins == {"idle", "wake_upd"}

RefreshPc ==
  [idle     |-> [slider |-> "upd_slider", changed |-> "upd_changed",
                 box |-> "upd_box", toggled |-> "upd_toggled", end |-> "upd_end"],
   wake_upd |-> [slider |-> "wupd_slider", changed |-> "wupd_changed",
                 box |-> "wupd_box", toggled |-> "wupd_toggled", end |-> "wupd_end"]]

RefreshStages ==
  {RefreshPc[from][s] : from \in Origins,
                        s \in {"slider", "changed", "box", "toggled", "end"}}

gui_frame == <<max_brightness, touch_device, running, pc, ev, current_time,
               last_tap_time, touch_down, hist, calls, tally>>

\* on_slider_changed run by "value-changed" with the slider at value
slider_changed(value, ok) ==
  IF updating
    THEN UNCHANGED <<brightness, last_brightness, bl_power, checkbox>>
    ELSE /\ set_brightness_percent(value, ok)
         /\ IF is_backlight_off(ok)
              THEN turn_backlight_on(ok) /\ checkbox' = FALSE
              ELSE UNCHANGED <<bl_power, checkbox>>

checkbox_toggled_unguarded(ok) ==
  IF checkbox THEN turn_backlight_off(ok) ELSE turn_backlight_on(ok)

\* on_checkbox_toggled run by "toggled" with the check button as set_active left it
checkbox_toggled(ok) ==
  IF updating
    THEN UNCHANGED bl_power
    ELSE IF checkbox THEN turn_backlight_off(ok) ELSE turn_backlight_on(ok)

\* if not self.updating: self.updating = True
UpdateBegin(from) ==
  /\ fgpc = from
  /\ ~updating
  /\ updating' = TRUE
  /\ fgpc' = RefreshPc[from].slider
  /\ UNCHANGED <<dev, idle_queue, checkbox, wr>>
  /\ UNCHANGED gui_frame

\* percent = get_brightness_percent(); self.slider.set_value(percent)
UpdateSlider(from, changed) ==
  /\ fgpc = RefreshPc[from].slider
  /\ fgpc' = IF changed THEN RefreshPc[from].changed ELSE RefreshPc[from].box
  /\ UNCHANGED <<dev, idle_queue, checkbox, wr, updating>>
  /\ UNCHANGED gui_frame

\* the handler of "value-changed"; the slider holds the percent just read
UpdateChanged(from, ok, okw) ==
  /\ fgpc = RefreshPc[from].changed
  /\ slider_changed(get_brightness_percent(ok), okw)
  /\ fgpc' = RefreshPc[from].box
  /\ UNCHANGED <<idle_queue, wr, updating>>
  /\ UNCHANGED gui_frame

\* self.update_value_label(); is_off = is_backlight_off();
\* self.off_checkbox.set_active(is_off)
UpdateCheckbox(from, ok) ==
  /\ fgpc = RefreshPc[from].box
  /\ checkbox' = is_backlight_off(ok)
  /\ fgpc' = IF checkbox' # checkbox THEN RefreshPc[from].toggled
                                     ELSE RefreshPc[from].end
  /\ UNCHANGED <<dev, idle_queue, wr, updating>>
  /\ UNCHANGED gui_frame

\* the handler of "toggled"
UpdateToggled(from, ok) ==
  /\ fgpc = RefreshPc[from].toggled
  /\ checkbox_toggled(ok)
  /\ fgpc' = RefreshPc[from].end
  /\ UNCHANGED <<brightness, last_brightness, idle_queue, checkbox, wr, updating>>
  /\ UNCHANGED gui_frame

\* self.updating = False; return True (timer) or, in on_double_tap, return False
UpdateEnd(from) ==
  /\ fgpc = RefreshPc[from].end
  /\ updating' = FALSE
  /\ fgpc' = "idle"
  /\ IF from = "idle"
       THEN UNCHANGED <<idle_queue, wr>>
       ELSE on_double_tap_return /\ wr' = NoWrite
  /\ UNCHANGED <<dev, checkbox>>
  /\ UNCHANGED gui_frame

RefreshStep ==
  \E from \in Origins :
    \/ UpdateBegin(from)
    \/ \E changed \in BOOLEAN : UpdateSlider(from, changed)
    \/ \E ok \in BOOLEAN, okw \in BOOLEAN : UpdateChanged(from, ok, okw)
    \/ \E ok \in BOOLEAN : UpdateCheckbox(from, ok)
    \/ \E ok \in BOOLEAN : UpdateToggled(from, ok)
    \/ UpdateEnd(from)

NextGui ==
  \/ MonitorStep(FALSE)
  \/ WakeDispatch
  \/ \E ok \in BOOLEAN : RestoreSet(ok)
  \/ \E ok \in BOOLEAN : RestoreOn(ok)
  \/ SliderStep
  \/ \E ok \in BOOLEAN : on_checkbox_toggled(ok)
  \/ RefreshStep

SpecGui == Init /\ [][NextGui]_vars

(***************************************************************************)
(* The detector's lifecycle: start() and stop() called by the main thread  *)
(* between two handlers, around the monitoring threads.  A call of start() *)
(* that returns early (no touch device, or running already set) changes    *)
(* nothing.  Threads bounds the threads that exist at one time.            *)
(***************************************************************************)
life_frame == <<brightness, bl_power, max_brightness, last_brightness,
                touch_device, ev, current_time, last_tap_time, touch_down,
                idle_queue, fgpc, checkbox, wr, hist, calls,
                 tally, updating>>

start ==
  /\ fgpc = "idle"
  /\ touch_device
  /\ ~running
  /\ running' = TRUE
  /\ \E t \in Threads :
       /\ pc[t] \in {"none", "done", "dead"}
       /\ pc' = [pc EXCEPT ![t] = "read"]
  /\ UNCHANGED life_frame

stop ==
  /\ fgpc = "idle"
  /\ running' = FALSE
  /\ UNCHANGED pc
  /\ UNCHANGED life_frame

NextLife ==
  \/ MonitorStep(FALSE)
  \/ WakeStep
  \/ \E ok \in BOOLEAN : on_checkbox_toggled(ok)
  \/ start
  \/ stop

SpecLife == InitTap /\ [][NextLife]_vars

(***************************************************************************)
(* The GTK main loop is fair: a handler that has started runs to its end,  *)
(* and a queued idle callback is dispatched once the loop keeps coming     *)
(* back to idle.                                                           *)
(***************************************************************************)
FgContinue ==
  \/ \E ok \in BOOLEAN : SliderGate(ok)
  \/ \E ok \in BOOLEAN : SliderOn(ok)
  \/ \E ok \in BOOLEAN : SliderToggled(ok)
  \/ \E ok \in BOOLEAN : RestoreSet(ok)
  \/ \E ok \in BOOLEAN : RestoreOn(ok)
  \/ \E ok \in BOOLEAN : WakeRefresh(ok)

FairSpec == Init /\ [][Next]_vars /\ WF_vars(FgContinue) /\ SF_vars(WakeDispatch)

(***************************************************************************)
(* The controller's methods called one after another on a controller that  *)
(* nothing else uses (the command line of main() does this).  calls keeps  *)
(* the last n calls: the method, its argument, the outcome of its device   *)
(* access (ok, and ok2 for the second write of restore_brightness), the    *)
(* boolean it returned (res) and the number it returned (val).             *)
(***************************************************************************)
Call(op, arg, ok, ok2, res, val) ==
  [op |-> op, arg |-> arg, ok |-> ok, ok2 |-> ok2, res |-> res, val |-> val]

Log(c, n) ==
  LET all == Append(calls, c)
  IN  IF Len(all) > n THEN Tail(all) ELSE all

api_frame == <<max_brightness, touch_device, running, pc, ev, current_time,
               last_tap_time, touch_down, idle_queue, fgpc, checkbox, wr,
               hist, tally, updating>>

CallSetBrightness(value, ok, n) ==
  /\ set_brightness(value, ok)
  /\ calls' = Log(Call("set_brightness", value, ok, TRUE,
                       set_brightness_result(ok), 0), n)
  /\ UNCHANGED bl_power
  /\ UNCHANGED api_frame

CallSetPercent(percent, ok, n) ==
  /\ set_brightness_percent(percent, ok)
  /\ calls' = Log(Call("set_brightness_percent", percent, ok, TRUE,
                       set_brightness_result(ok), 0), n)
  /\ UNCHANGED bl_power
  /\ UNCHANGED api_frame

CallGetPercent(ok, n) ==
  /\ calls' = Log(Call("get_brightness_percent", 0, ok, TRUE, TRUE,
                       get_brightness_percent(ok)), n)
  /\ UNCHANGED dev
  /\ UNCHANGED api_frame

CallTurnOff_dim(ok, n) ==
  /\ turn_backlight_off(ok)
  /\ calls' = Log(Call("turn_backlight_off", 0, ok, TRUE, ok, 0), n)
  /\ brightness' = 0
  /\ UNCHANGED last_brightness
  /\ UNCHANGED api_frame

CallTurnOff(ok, n) ==
  /\ turn_backlight_off(ok)
  /\ calls' = Log(Call("turn_backlight_off", 0, ok, TRUE, ok, 0), n)
  /\ UNCHANGED <<brightness, last_brightness>>
  /\ UNCHANGED api_frame

CallTurnOn(ok, n) ==
  /\ turn_backlight_on(ok)
  /\ calls' = Log(Call("turn_backlight_on", 0, ok, TRUE, ok, 0), n)
  /\ UNCHANGED <<brightness, last_brightness>>
  /\ UNCHANGED api_frame

\* restore_brightness: both statements, the results of both are dropped
CallRestore(ok, ok2, n) ==
  /\ set_brightness(last_brightness, ok)
  /\ turn_backlight_on(ok2)
  /\ calls' = Log(Call("restore_brightness", 0, ok, ok2, TRUE, 0), n)
  /\ UNCHANGED api_frame

InitCtl == Init /\ touch_device = FALSE

NextCtl ==
  \/ \E v \in Values, ok \in BOOLEAN : CallSetBrightness(v, ok, 2)
  \/ \E p \in UserPercents, ok \in BOOLEAN : CallSetPercent(p, ok, 2)
  \/ \E ok \in BOOLEAN : CallGetPercent(ok, 2)
  \/ \E ok \in BOOLEAN : CallTurnOff(ok, 2)
  \/ \E ok \in BOOLEAN : CallTurnOn(ok, 2)
  \/ \E ok \in BOOLEAN, ok2 \in BOOLEAN : CallRestore(ok, ok2, 2)

SpecCtl == InitCtl /\ [][NextCtl]_vars

(***************************************************************************)
(* The percent conversions over a device whose max_brightness is anything  *)
(* in RawLevels and whose brightness is anything the device can hold.      *)
(* Writes succeed here; failed writes are part of SpecCtl.                 *)
(***************************************************************************)
InitPct ==
  /\ InitCommon
  /\ tally = NoTally
  /\ touch_device = FALSE
  /\ bl_power = 0
  /\ max_brightness \in RawLevels
  /\ brightness \in 0 .. max_brightness
  /\ last_brightness = brightness

NextPct ==
  \/ \E p \in Percents : CallSetPercent(p, TRUE, 1)
  \/ \E ok \in BOOLEAN : CallGetPercent(ok, 1)

SpecPct == InitPct /\ [][NextPct]_vars

(***************************************************************************)
(* Properties                                                              *)
(***************************************************************************)

\* thread t is about to handle a Down that passed the gate
AtDown(t) == pc[t] = "tap" /\ ev[t] = "down"

\* the Down thread t holds completes a pair with the recorded last_tap_time
Pairs(t) == last_tap_time # 0 /\ current_time[t] - last_tap_time < tap_timeout

\* the i-th and (i+1)-th Down of hist are less than tap_timeout apart
Fast(i) == hist[i + 1].t - hist[i].t < tap_timeout

\* C1: with the gate open, a Down less than tap_timeout after the recorded
\* last_tap_time queues exactly one wake callback and resets last_tap_time to
\* none (0).
C1_DoubleTapWakesOnce ==
  [][\A t \in Threads :
       (AtDown(t) /\ Pairs(t) /\ pc'[t] = "read")
          => (idle_queue' = idle_queue + 1 /\ last_tap_time' = 0)]_vars

C1_Witness ==
  /\ Len(hist) >= 2
  /\ ~hist[Len(hist) - 1].woke
  /\ hist[Len(hist)].woke
  /\ hist[Len(hist)].t - hist[Len(hist) - 1].t = tap_timeout - 1
  /\ last_tap_time = 0
  /\ idle_queue = 1

\* C2: with the gate open, a Down whose distance from last_tap_time is at least
\* tap_timeout (exactly tap_timeout included), or that finds no previous tap,
\* queues no wake callback and becomes last_tap_time.
C2_SlowTapRecords ==
  [][\A t \in Threads :
       (AtDown(t) /\ ~Pairs(t) /\ pc'[t] = "read")
          => (idle_queue' = idle_queue /\ last_tap_time' = current_time[t])]_vars

C2_Witness ==
  /\ Len(hist) >= 2
  /\ ~hist[Len(hist) - 1].woke
  /\ ~hist[Len(hist)].woke
  /\ hist[Len(hist)].t - hist[Len(hist) - 1].t = tap_timeout
  /\ last_tap_time = hist[Len(hist)].t
  /\ idle_queue = 0

\* C3 as claimed: any three consecutive Downs processed with the gate open, each
\* less than tap_timeout after the one before, give exactly one wake: the second
\* wakes, the first and the third do not.
C3_AnyTripleOneWake ==
  (Len(hist) = 3 /\ Fast(1) /\ Fast(2))
     => (~hist[1].woke /\ hist[2].woke /\ ~hist[3].woke)

\* C3 amended: the same, for three such Downs of which the first did not itself
\* complete a double-tap.
C3_TripleFromFirstHalf ==
  (Len(hist) = 3 /\ Fast(1) /\ Fast(2) /\ ~hist[1].woke)
     => (hist[2].woke /\ ~hist[3].woke)

C3_Witness ==
  /\ Len(hist) = 3
  /\ Fast(1) /\ Fast(2)
  /\ ~hist[1].woke /\ hist[2].woke /\ ~hist[3].woke
  /\ last_tap_time = hist[3].t
  /\ idle_queue = 1

\* C4 as claimed: a Down handled while the device power is On (bl_power = 0)
\* queues no wake callback and records no tap time.
C4_NoTapWhilePowerOn ==
  [][\A t \in Threads :
       (AtDown(t) /\ bl_power = 0 /\ pc'[t] = "read")
          => (idle_queue' = idle_queue /\ last_tap_time' # current_time[t])]_vars

\* C4 amended: a Down whose gate check finds the power On is dropped: it queues
\* no wake callback, never reaches the tap handling, and last_tap_time is cleared.
C4_GateClosedDrops ==
  [][\A t \in Threads :
       (pc[t] = "gate" /\ ev[t] = "down" /\ bl_power = 0 /\ pc'[t] # "gate")
          => /\ pc'[t] \in {"read", "dead"}
             /\ idle_queue' = idle_queue
             /\ pc'[t] = "read" => last_tap_time' = 0]_vars

C4_Witness ==
  \E t \in Threads :
    pc[t] = "gate" /\ ev[t] = "down" /\ bl_power = 0 /\ last_tap_time # 0

\* C5: last_tap_time is none (0) in every state in which the power is On.
C5_NoTapTimeWhilePowerOn == bl_power = 0 => last_tap_time = 0

C9_MonitorOnlyReads ==
  [][/\ pc' # pc => UNCHANGED dev
     /\ dev' # dev => (fgpc' # fgpc \/ checkbox' # checkbox)]_vars

C9_Witness ==
  /\ idle_queue > 0
  /\ fgpc = "idle"
  /\ bl_power = 1
  /\ last_tap_time = 0
  /\ pc[1] = "read"

\* C10: an error raised while an event is handled does not end the monitoring
\* loop: no step of a thread that is handling an event ends that thread.
C10_LoopSurvivesError ==
  [][\A t \in Threads :
       pc[t] \in {"gate", "proc", "tap"} => pc'[t] # "dead"]_vars

\* the most recent call to a controller method
LastCall == calls[Len(calls)]

\* C11: a successful set_brightness(value) stores 0 when value is below 0,
\* max_brightness when value is above max_brightness and value itself when it
\* is in range; whether the call succeeds depends on the write alone, never
\* on the value.
C11_SetBrightnessClamps ==
  (calls # <<>> /\ LastCall.op = "set_brightness") =>
    /\ LastCall.res = LastCall.ok
    /\ LastCall.ok =>
         /\ LastCall.arg < 0 => brightness = 0
         /\ LastCall.arg > max_brightness => brightness = max_brightness
         /\ (0 <= LastCall.arg /\ LastCall.arg <= max_brightness) =>
              brightness = LastCall.arg

C11_Witness ==
  /\ Len(calls) = 2
  /\ calls[1].op = "set_brightness" /\ calls[1].ok /\ calls[1].arg < 0
  /\ calls[2].op = "set_brightness" /\ calls[2].ok /\ calls[2].res
  /\ calls[2].arg > max_brightness
  /\ max_brightness > 0
  /\ brightness = max_brightness

\* C12: the device brightness is between 0 and max_brightness in every
\* reachable state, from construction onward and after any sequence of
\* controller calls, whatever reads or writes fail.
C12_BrightnessInRange == 0 <= brightness /\ brightness <= max_brightness

\* C13: set_brightness returns success exactly when its write succeeds; on
\* success the device brightness and last_brightness both become the clamped
\* value, on failure both stay as they were.
C13_LastBrightnessOnSuccess ==
  [][(calls' # <<>> /\ LastCall'.op = "set_brightness") =>
       /\ LastCall'.res = LastCall'.ok
       /\ LastCall'.ok =>
            /\ brightness' = Clamp(LastCall'.arg)
            /\ last_brightness' = Clamp(LastCall'.arg)
       /\ ~LastCall'.ok => UNCHANGED <<brightness, last_brightness>>]_vars

C13_Witness ==
  /\ Len(calls) = 2
  /\ calls[1].op = "set_brightness" /\ calls[1].ok /\ calls[1].res
  /\ calls[2].op = "set_brightness" /\ ~calls[2].ok /\ ~calls[2].res
  /\ Clamp(calls[2].arg) # Clamp(calls[1].arg)
  /\ brightness = Clamp(calls[1].arg)
  /\ last_brightness = Clamp(calls[1].arg)

\* the brightness a successful set_brightness or set_brightness_percent call c
\* commanded
Commanded(c) ==
  IF c.op = "set_brightness" THEN Clamp(c.arg) ELSE Clamp(PercentToRaw(c.arg))

\* C14: turn_backlight_off changes only the power: brightness and
\* last_brightness are the same after it as before, whether or not its write
\* succeeds, and a restore_brightness that follows it and writes successfully
\* sets the brightness that was commanded before the power-off.
C14_TurnOffKeepsBrightness ==
  [][/\ (calls' # <<>> /\ LastCall'.op = "turn_backlight_off") =>
          UNCHANGED <<brightness, last_brightness>>
     /\ ( /\ Len(calls) = 2
          /\ calls[1].op \in {"set_brightness", "set_brightness_percent"}
          /\ calls[1].ok
          /\ calls[2].op = "turn_backlight_off"
          /\ LastCall'.op = "restore_brightness"
          /\ LastCall'.ok ) =>
          /\ brightness' = Commanded(calls[1])
          /\ last_brightness' = Commanded(calls[1])]_vars

C14_Witness ==
  /\ Len(calls) = 2
  /\ calls[1].op = "turn_backlight_off" /\ calls[1].ok
  /\ calls[2].op = "restore_brightness" /\ calls[2].ok /\ calls[2].ok2
  /\ bl_power = 0
  /\ brightness = 1
  /\ last_brightness = 1

\* the percent get_brightness_percent() reports is within 1 of percent p
WithinOne(p) ==
  LET got == get_brightness_percent(TRUE)
  IN  got - p <= 1 /\ p - got <= 1

\* C15 as stated: for every percent in 0..100 and every max_brightness of the
\* range, after a successful set_brightness_percent(percent) the percent that
\* get_brightness_percent() reports differs from percent by at most 1.
C15_RoundTripWithinOne ==
  (calls # <<>> /\ LastCall.op = "set_brightness_percent" /\ LastCall.ok) =>
    WithinOne(LastCall.arg)

\* C15 amended: for every percent in 0..100 and every max_brightness above
\* 100, after a successful set_brightness_percent(percent) the percent that
\* get_brightness_percent() reports differs from percent by at most 1.
C15_RoundTripAbove100 ==
  ( /\ calls # <<>>
    /\ LastCall.op = "set_brightness_percent"
    /\ LastCall.ok
    /\ max_brightness > 100 ) =>
    WithinOne(LastCall.arg)

C15_Witness ==
  /\ calls # <<>>
  /\ LastCall.op = "set_brightness_percent" /\ LastCall.ok
  /\ max_brightness > 100
  /\ LastCall.arg = 50
  /\ get_brightness_percent(TRUE) = 49

\* C16 as stated: get_brightness_percent() returns brightness /
\* max_brightness * 100 rounded to a nearest integer (whichever way a tie
\* goes), an integer in 0..100, and 0 when max_brightness is 0.
C16_ReturnsRounded ==
  (calls # <<>> /\ LastCall.op = "get_brightness_percent" /\ LastCall.ok) =>
    /\ LastCall.val \in 0 .. 100
    /\ IF max_brightness = 0
         THEN LastCall.val = 0
         ELSE LET diff == (LastCall.val * max_brightness) - (100 * brightness)
              IN  2 * diff <= max_brightness /\ 0 - (2 * diff) <= max_brightness

\* C16 amended: get_brightness_percent() returns brightness / max_brightness
\* * 100 truncated, never rounded up: an integer in 0..100 that is the
\* largest integer not above the quotient, or one below it when the quotient
\* is itself an integer; it returns 0 when max_brightness is 0.
C16_ReturnsTruncated ==
  (calls # <<>> /\ LastCall.op = "get_brightness_percent" /\ LastCall.ok) =>
    /\ LastCall.val \in 0 .. 100
    /\ IF max_brightness = 0
         THEN LastCall.val = 0
         ELSE /\ LastCall.val * max_brightness <= 100 * brightness
              /\ 100 * brightness < (LastCall.val + 2) * max_brightness
              /\ (100 * brightness) % max_brightness # 0 =>
                   100 * brightness < (LastCall.val + 1) * max_brightness

C16_Witness ==
  /\ calls # <<>>
  /\ LastCall.op = "get_brightness_percent" /\ LastCall.ok
  /\ max_brightness = 3
  /\ brightness = 2
  /\ LastCall.val = 66

\* C17: a monitoring thread that receives an event while running is cleared
\* leaves the loop on that event: the step ends the thread, changes neither
\* last_tap_time nor touch_down and queues no wake, so at most one event is
\* received after stop() and none is processed.
C17_StopExitsOnNextEvent ==
  [][\A t \in Threads :
       (pc[t] = "read" /\ ~running /\ pc'[t] # "read") =>
         /\ pc'[t] \in {"done", "dead"}
         /\ UNCHANGED <<last_tap_time, touch_down, idle_queue>>]_vars

C17_Witness ==
  /\ ~running
  /\ pc[1] = "done"
  /\ pc[2] = "none"
  /\ last_tap_time # 0
  /\ bl_power = 1

\* the value a successful turn_backlight_off / turn_backlight_on writes
PowerValue(op) == IF op = "turn_backlight_off" THEN 1 ELSE 0

\* C18: turn_backlight_off and turn_backlight_on are idempotent: a second
\* call right after the first leaves brightness and last_brightness alone,
\* leaves the power alone when the first call's write succeeded, and otherwise
\* leaves the power where one successful call puts it.
C18_PowerCallsIdempotent ==
  [][\A op \in {"turn_backlight_off", "turn_backlight_on"} :
       (calls # <<>> /\ LastCall.op = op /\ LastCall'.op = op) =>
         /\ UNCHANGED <<brightness, last_brightness>>
         /\ LastCall.ok => UNCHANGED bl_power
         /\ LastCall'.ok => bl_power' = PowerValue(op)
         /\ ~LastCall'.ok => UNCHANGED bl_power]_vars

C18_Witness ==
  /\ Len(calls) = 2
  /\ calls[1].op = "turn_backlight_off" /\ calls[1].ok
  /\ calls[2].op = "turn_backlight_off" /\ calls[2].ok
  /\ bl_power = 1
  /\ brightness = DevMax
  /\ last_brightness = DevMax

\* C19: an Up event that passed the gate (the backlight was read as off) is
\* handled without changing last_tap_time and without queueing a wake, and
\* the record of which Downs were recognised stays as it was.
C19_UpChangesNothing ==
  [][\A t \in Threads :
       (pc[t] = "tap" /\ ev[t] = "up" /\ pc'[t] = "read") =>
         UNCHANGED <<last_tap_time, idle_queue, hist>>]_vars

C19_Witness ==
  /\ pc[1] = "read"
  /\ touch_down = FALSE
  /\ last_tap_time # 0
  /\ Len(hist) = 1
  /\ bl_power = 1

\* C20: a failed read of bl_power makes is_backlight_off report "on", whatever
\* the file holds, and the gate step of an event whose read fails drops the
\* event: it clears last_tap_time and touch_down, queues no wake and returns
\* to the read loop.
C20_FailedReadClosesGate ==
  /\ [](~is_backlight_off(FALSE))
  /\ [][\A t \in Threads :
          (pc[t] = "gate" /\ Gate(t, FALSE)) =>
            /\ pc'[t] = "read"
            /\ last_tap_time' = 0
            /\ touch_down' = FALSE
            /\ idle_queue' = idle_queue]_vars

C20_Witness ==
  \E t \in Threads :
    /\ pc[t] = "gate" /\ ev[t] = "down"
    /\ bl_power = 1
    /\ last_tap_time # 0
    /\ ~is_backlight_off(FALSE)

\* the monitoring threads that are inside the read loop
Monitoring == {t \in Threads : pc[t] \in {"read", "gate", "proc", "tap"}}

\* C21: after any sequence of start() and stop() calls interleaved with touch
\* events, at most one monitoring thread is reading or processing touch
\* events.
C21_OneMonitoringThread == Cardinality(Monitoring) <= 1

\* C22: after any sequence of touch events and foreground power changes, the
\* wakes queued are at most half the Downs that were handled past the gate
\* (the backlight was read as off); a single Down queues no wake.
C22_WakesAtMostHalfDowns ==
  tally.on =>
    /\ 2 * tally.wakes <= tally.downs
    /\ tally.downs = 1 => tally.wakes = 0

C22_Witness ==
  /\ tally.on
  /\ tally.downs = 4
  /\ tally.wakes = 2

\* C23: update_display, run by its timer or after a wake, never writes the
\* device: updating is set in every step between its first and its last
\* statement, and no step taken while it runs, the handlers that set_value
\* and set_active call included, changes brightness, last_brightness or the
\* power.
C23_RefreshNeverWrites ==
  /\ [](fgpc \in RefreshStages => updating)
  /\ [][(fgpc \in RefreshStages \/ fgpc' \in RefreshStages) =>
          UNCHANGED dev]_vars

C23_Witness ==
  /\ fgpc = "wupd_toggled"
  /\ updating
  /\ wr.p
  /\ bl_power = 0
  /\ ~checkbox

====
